---------------------------- MODULE Spec2Model ----------------------------
(***************************************************************************)
(* Minesweeper engine of src/src/main.rs: board construction from a mine   *)
(* layout, the clamped 3x3 neighbourhood, the recursive clear (flood-fill) *)
(* with its traversed list, win detection and the interactive game loop.   *)
(***************************************************************************)
EXTENDS Integers, Sequences, FiniteSets, TLC

\* Board<N>: the side of the square grid (main instantiates Board::<10>).
N == 3

\* generate_bombs can return any layout. Up to 3x3 the model draws every one
\* of them; on a larger grid it draws the layouts with at most one mine and
\* those with at most one safe cell.
MaxMines == IF N <= 3 THEN N * N ELSE 1
MaxSafe == IF N <= 3 THEN N * N ELSE 1

Idx == 0 .. (N - 1)

\* struct CellPosition { row_index, col_index }
CellPosition(row_index, col_index) ==
    [row_index |-> row_index, col_index |-> col_index]

\* enum CellState
Bomb(flagged) == [kind |-> "Bomb", flagged |-> flagged]
Safe(flagged, open) == [kind |-> "Safe", flagged |-> flagged, open |-> open]

\* OpenedState with the open field left false
OpenedState_closed == Safe(FALSE, FALSE)

\* OpenedState keeping a flag on the opened cell
OpenedState_flagged == Safe(TRUE, TRUE)

\* The state clear writes into a closed Safe cell (lines 180-183).
OpenedState == Safe(FALSE, TRUE)

-----------------------------------------------------------------------------
\* get_cells_around: the elements of the clamped rectangle
\* [row-1, row+1] x [col-1, col+1], row-major, the centre included.
\* min_index with the step back forgotten
min_index_same(i) == i
min_index(i) == IF i > 0 THEN i - 1 ELSE 0
\* max_index with the step forward forgotten
max_index_same(i) == i
max_index(i) == IF i < N - 1 THEN i + 1 ELSE N - 1

get_cells_around(grid, position) ==
    LET min_row_index == min_index(position.row_index)
        max_row_index == max_index(position.row_index)
        min_col_index == min_index(position.col_index)
        max_col_index == max_index(position.col_index)
        ncols == max_col_index + 1 - min_col_index
        nrows == max_row_index + 1 - min_row_index
    IN [k \in 1 .. (nrows * ncols) |->
            grid[min_row_index + ((k - 1) \div ncols)]
                [min_col_index + ((k - 1) % ncols)]]

\* get_bombs_around leaving the cell at position itself out of the count
get_bombs_around_others(bombs, position) ==
    LET cells_around == get_cells_around(bombs, position)
        self == IF bombs[position.row_index][position.col_index] THEN 1 ELSE 0
    IN (Cardinality({k \in DOMAIN cells_around : cells_around[k]}) - self) % 256

\* cells_around.filter(|&&is_bomb| is_bomb).count() as u8
get_bombs_around(bombs, position) ==
    LET cells_around == get_cells_around(bombs, position)
    IN Cardinality({k \in DOMAIN cells_around : cells_around[k]}) % 256

\* Cell::new counting the mines around the transposed position
Cell_new_transposed(row_index, col_index, bombs, is_bomb) ==
    [bombs_around |-> get_bombs_around(bombs, CellPosition(col_index, row_index)),
     state |-> IF is_bomb THEN Bomb(FALSE) ELSE Safe(FALSE, FALSE),
     position |-> CellPosition(row_index, col_index)]

\* Cell::new
Cell_new(row_index, col_index, bombs, is_bomb) ==
    LET position == CellPosition(row_index, col_index)
    IN [bombs_around |-> get_bombs_around(bombs, position),
        state |-> IF is_bomb THEN Bomb(FALSE) ELSE Safe(FALSE, FALSE),
        position |-> position]

\* Display for Cell: the glyph of the cell, or the panic of lines 81-84
fmt(cell) ==
    IF cell.state.kind = "Bomb"
    THEN IF cell.state.flagged THEN "^" ELSE "@"
    ELSE IF cell.state.flagged
         THEN IF cell.state.open THEN "panic" ELSE "?"
         ELSE IF cell.state.open THEN ToString(cell.bombs_around) ELSE "#"

\* generate_bombs: every cell is sampled independently with a non-zero
\* chance of either outcome, so every layout can come out.
MineCount(bombs) ==
    Cardinality({rc \in Idx \X Idx : bombs[rc[1]][rc[2]]})

generate_bombs ==
    {bombs \in [Idx -> [Idx -> BOOLEAN]] :
        \/ MineCount(bombs) <= MaxMines
        \/ N * N - MineCount(bombs) <= MaxSafe}

\* Board::new, given the layout generate_bombs returned
Board_new(bombs) ==
    [row_index \in Idx |->
        [col_index \in Idx |->
            Cell_new(row_index, col_index, bombs, bombs[row_index][col_index])]]

-----------------------------------------------------------------------------
\* Board::get_cell_mut: Option<&mut Cell>, here <<>> for None and the
\* one-element sequence holding the cell for Some.
get_cell_mut(board, position) ==
    IF position.row_index \in DOMAIN board
    THEN IF position.col_index \in DOMAIN board[position.row_index]
         THEN <<board[position.row_index][position.col_index]>>
         ELSE <<>>
    ELSE <<>>

\* self.board.concat(): the rows one after another
concat(board) ==
    [k \in 1 .. (N * N) |-> board[(k - 1) \div N][(k - 1) % N]]

\* the closure of is_won passing over flagged cells
closed_and_safe_unflagged(cell) ==
    IF cell.state.kind = "Safe"
    THEN ~cell.state.open /\ ~cell.state.flagged
    ELSE FALSE

\* the closure of is_won: a cell that is closed and safe
closed_and_safe(cell) ==
    IF cell.state.kind = "Safe" THEN ~cell.state.open ELSE FALSE

\* Board::is_won
is_won(board) ==
    LET cells == concat(board)
    IN ~(\E k \in DOMAIN cells : closed_and_safe(cells[k]))

\* traversed.contains(&position), with CellPosition's PartialEq
contains(traversed, position) ==
    \E k \in DOMAIN traversed :
        /\ traversed[k].row_index = position.row_index
        /\ traversed[k].col_index = position.col_index

\* extend passing the caller's list on as it is
extend_nothing(traversed, position) == traversed

\* [&traversed[..], &[cell.position]].concat()
extend(traversed, position) == traversed \o <<position>>

\* match_state without the arm for an open Safe cell
match_state_any_safe(state) ==
    IF state.kind = "Bomb" THEN "ClearedBomb" ELSE "open"

\* the arm of `match cell.state` that clear takes (lines 176-185)
match_state(state) ==
    IF state.kind = "Bomb" THEN "ClearedBomb"
    ELSE IF state.open THEN "AlreadyCleared"
    ELSE "open"

\* open_cell also resetting the count of the opened cell
open_cell_recount(board, position) ==
    [board EXCEPT ![position.row_index][position.col_index] =
        [@ EXCEPT !.state = OpenedState, !.bombs_around = 0]]

\* line 180: cell.state = CellState::Safe { open: true, flagged: false }
open_cell(board, position) ==
    [board EXCEPT ![position.row_index][position.col_index].state = OpenedState]

\* expands whatever the count of the cell
expands_always(cell) == TRUE

\* the guard of the recursive expansion (line 187)
expands(cell) == cell.bombs_around = 0

\* enter returning Ok(()) on a cell that is open already
enter_ok_on_open(board, position, traversed) ==
    IF contains(traversed, position) THEN [board |-> board, ret |-> "Ok"]
    ELSE LET found == get_cell_mut(board, position)
         IN IF found = <<>> THEN [board |-> board, ret |-> "CellNotFound"]
            ELSE LET cell == found[1]
                     arm == match_state(cell.state)
                 IN IF arm = "ClearedBomb" THEN [board |-> board, ret |-> arm]
                    ELSE IF arm = "AlreadyCleared"
                    THEN [board |-> board, ret |-> "Ok"]
                    ELSE [board |-> open_cell(board, position),
                          ret |-> IF expands(cell) THEN "expand" ELSE "Ok"]

\* enter writing the opened state into the cell before matching on it
enter_writes_first(board, position, traversed) ==
    IF contains(traversed, position) THEN [board |-> board, ret |-> "Ok"]
    ELSE LET found == get_cell_mut(board, position)
         IN IF found = <<>> THEN [board |-> board, ret |-> "CellNotFound"]
            ELSE LET cell == found[1]
                     arm == match_state(cell.state)
                 IN [board |-> open_cell(board, position),
                     ret |-> IF arm # "open" THEN arm
                             ELSE IF expands(cell) THEN "expand" ELSE "Ok"]

\* One call of Board::clear up to its for loop (lines 166-189): the board it
\* leaves and what it returns, or "expand" when it goes on to clear the
\* cells around.
enter(board, position, traversed) ==
    IF contains(traversed, position) THEN [board |-> board, ret |-> "Ok"]
    ELSE LET found == get_cell_mut(board, position)
         IN IF found = <<>> THEN [board |-> board, ret |-> "CellNotFound"]
            ELSE LET cell == found[1]
                     arm == match_state(cell.state)
                 IN IF arm # "open" THEN [board |-> board, ret |-> arm]
                    ELSE [board |-> open_cell(board, position),
                          ret |-> IF expands(cell) THEN "expand" ELSE "Ok"]

\* enter_unguarded going on with an open cell as with a closed one
enter_unguarded_reenters(board, position, traversed) ==
    LET found == get_cell_mut(board, position)
    IN IF found = <<>> THEN [board |-> board, ret |-> "CellNotFound"]
       ELSE LET cell == found[1]
            IN IF cell.state.kind = "Bomb"
               THEN [board |-> board, ret |-> "ClearedBomb"]
               ELSE [board |-> open_cell(board, position),
                     ret |-> IF expands(cell) THEN "expand" ELSE "Ok"]

\* Board::clear up to its for loop with lines 168-170, the early return on
\* a position that is in traversed, taken out and all else as it is
\* (lines 166, 172-189)
enter_unguarded(board, position, traversed) ==
    LET found == get_cell_mut(board, position)
    IN IF found = <<>> THEN [board |-> board, ret |-> "CellNotFound"]
       ELSE LET cell == found[1]
                arm == match_state(cell.state)
            IN IF arm # "open" THEN [board |-> board, ret |-> arm]
               ELSE [board |-> open_cell(board, position),
                     ret |-> IF expands(cell) THEN "expand" ELSE "Ok"]

\* positions_around without the diagonal cells
positions_around_orthogonal(board_before_mutation, position) ==
    LET cells_around == get_cells_around(board_before_mutation, position)
        all == [k \in DOMAIN cells_around |-> cells_around[k].position]
        Orthogonal(q) == \/ q.row_index = position.row_index
                         \/ q.col_index = position.col_index
    IN SelectSeq(all, Orthogonal)

\* the positions the for loop of line 190 goes through: those of the cells
\* get_cells_around finds in board_before_mutation
positions_around(board_before_mutation, position) ==
    LET cells_around == get_cells_around(board_before_mutation, position)
    IN [k \in DOMAIN cells_around |-> cells_around[k].position]

\* The activation of a clear call that reached its for loop: its arguments,
\* new_traversed (line 188), the positions to go through and the index of
\* the next one.
Frame(board_before_mutation, position, traversed) ==
    [position |-> position,
     traversed |-> traversed,
     new_traversed |-> extend(traversed, board_before_mutation[position.row_index][position.col_index].position),
     cells_around |-> positions_around(board_before_mutation, position),
     k |-> 1]

\* what the closure of unwrap_or_else does with a recursive call's result
\* (lines 191-200)
unwrap_or_else(ret) ==
    CASE ret = "Ok" -> "go_on"
      [] ret = "CellNotFound" -> "panic"
      [] ret = "ClearedBomb" -> "panic"
      [] ret = "AlreadyCleared" -> "go_on"

Max(a, b) == IF a >= b THEN a ELSE b

-----------------------------------------------------------------------------
\* The game loop of main, with the recursion of clear run call by call.
\*   board   board.board
\*   stack   the activations of clear that are in their for loop, outermost
\*           first
\*   pc      where main is: "loop" (line 286), "input" (lines 290-302),
\*           "in_clear" (inside the call of line 309), "exit" (after the
\*           loop), "abort" (a panic)
\*   result  the value the loop breaks with
\*   arg     the position main passed to the top-level clear that is in
\*           progress or has just returned; none once the player is prompted
\*   call    the top-level clear in progress: the board it started on, the
\*           number of clear calls made so far, the deepest nesting of
\*           calls, the errors recursive calls returned
\*   last    the latest top-level clear that returned: what it returned, its
\*           position when it returned Ok, and whether it repeated the
\*           position of a call that had just returned Ok
VARIABLES board, stack, pc, result, arg, call, last

vars == <<board, stack, pc, result, arg, call, last>>

\* what the player can type: an index inside the grid, or N for any index
\* beyond it (anything that is no usize is malformed input)
Typed == 0 .. N

NoPosition == CellPosition(N + 1, N + 1)

NoCall == [before |-> <<>>, calls |-> 0, depth |-> 0, inner |-> {}]

NoLast == [ret |-> "none", position |-> NoPosition, repeat |-> FALSE]

Init ==
    /\ \E bombs \in generate_bombs : board = Board_new(bombs)
    /\ stack = <<>>
    /\ pc = "loop"
    /\ result = "none"
    /\ arg = NoPosition
    /\ call = NoCall
    /\ last = NoLast

\* Won with the break left out: the turn goes on to the prompt
Won_goes_on ==
    /\ pc = "loop"
    /\ is_won(board)
    /\ pc' = "input"
    /\ arg' = NoPosition
    /\ UNCHANGED <<board, stack, result, call, last>>

\* line 286: if board.is_won() { break "Game won" }
Won ==
    /\ pc = "loop"
    /\ is_won(board)
    /\ pc' = "exit"
    /\ result' = "Game won"
    /\ UNCHANGED <<board, stack, arg, call, last>>

\* Prompt reached without the is_won() check of the turn
Prompt_unchecked ==
    /\ pc = "loop"
    /\ pc' = "input"
    /\ arg' = NoPosition
    /\ UNCHANGED <<board, stack, result, call, last>>

\* lines 290-293: the board is printed and the player is prompted
Prompt ==
    /\ pc = "loop"
    /\ ~is_won(board)
    /\ pc' = "input"
    /\ arg' = NoPosition
    /\ UNCHANGED <<board, stack, result, call, last>>

\* lines 295-302: a line that cannot be read or parsed; unwrap_or_continue
\* prints the error and starts the next turn
Malformed ==
    /\ pc = "input"
    /\ pc' = "loop"
    /\ UNCHANGED <<board, stack, result, arg, call, last>>

\* Matched taking another turn after ClearedBomb
Matched_another_turn(position, ret) ==
    /\ pc' = "loop"
    /\ result' = result
    /\ last' = [ret |-> ret,
                position |-> IF ret = "Ok" THEN position ELSE NoPosition,
                repeat |-> last.ret = "Ok" /\ last.position = position]

\* lines 309-322: main's match on what the top-level clear returned
Matched(position, ret) ==
    /\ pc' = IF ret = "ClearedBomb" THEN "exit" ELSE "loop"
    /\ result' = IF ret = "ClearedBomb" THEN "Game lost" ELSE result
    /\ last' = [ret |-> ret,
                position |-> IF ret = "Ok" THEN position ELSE NoPosition,
                repeat |-> last.ret = "Ok" /\ last.position = position]

\* lines 304-322: both indices parsed and clear called with an empty
\* traversed list; the call either returns at once, and main matches its
\* result, or reaches its for loop
Call(row_index, col_index) ==
    /\ pc = "input"
    /\ LET position == CellPosition(row_index, col_index)
           e == enter(board, position, <<>>)
       IN /\ board' = e.board
          /\ arg' = position
          /\ IF e.ret = "expand"
             THEN /\ stack' = <<Frame(board, position, <<>>)>>
                  /\ pc' = "in_clear"
                  /\ call' = [before |-> board, calls |-> 1, depth |-> 1,
                              inner |-> {}]
                  /\ last' = NoLast
                  /\ UNCHANGED result
             ELSE /\ Matched(position, e.ret)
                  /\ UNCHANGED <<stack, call>>

\* lines 190-201, one element of the for loop: the recursive call on the
\* next cell around, with new_traversed. It returns at once, and
\* unwrap_or_else handles its result, or it reaches its own for loop.
Recurse ==
    /\ pc = "in_clear"
    /\ LET top == stack[Len(stack)]
       IN /\ top.k <= Len(top.cells_around)
          /\ LET position == top.cells_around[top.k]
                 e == enter(board, position, top.new_traversed)
             IN /\ board' = e.board
                /\ call' = [call EXCEPT
                              !.calls = @ + 1,
                              !.depth = Max(@, Len(stack) + 1),
                              !.inner = IF e.ret \in {"Ok", "expand"}
                                        THEN @ ELSE @ \cup {e.ret}]
                /\ IF e.ret = "expand"
                   THEN /\ stack' = Append(stack,
                                        Frame(board, position, top.new_traversed))
                        /\ pc' = "in_clear"
                   ELSE IF unwrap_or_else(e.ret) = "panic"
                   THEN /\ stack' = stack
                        /\ pc' = "abort"
                   ELSE /\ stack' = [stack EXCEPT ![Len(stack)].k = @ + 1]
                        /\ pc' = "in_clear"
                /\ UNCHANGED <<result, arg, last>>

\* line 204: the for loop of the innermost call is over and it returns
\* Ok(()), to the call around it or to main
Return ==
    /\ pc = "in_clear"
    /\ LET top == stack[Len(stack)]
           rest == SubSeq(stack, 1, Len(stack) - 1)
       IN /\ top.k > Len(top.cells_around)
          /\ IF rest = <<>>
             THEN /\ stack' = <<>>
                  /\ Matched(arg, "Ok")
                  /\ call' = NoCall
             ELSE /\ stack' = [rest EXCEPT ![Len(rest)].k = @ + 1]
                  /\ UNCHANGED <<pc, result, call, last>>
          /\ UNCHANGED <<board, arg>>

Next ==
    \/ Won
    \/ Prompt
    \/ Malformed
    \/ \E row_index \in Typed, col_index \in Typed : Call(row_index, col_index)
    \/ Recurse
    \/ Return

Spec == Init /\ [][Next]_vars

-----------------------------------------------------------------------------
\* The same game with clear deprived of its guard on traversed: the calls
\* go through enter_unguarded, the list is still built and passed on.
Call_unguarded(row_index, col_index) ==
    /\ pc = "input"
    /\ LET position == CellPosition(row_index, col_index)
           e == enter_unguarded(board, position, <<>>)
       IN /\ board' = e.board
          /\ arg' = position
          /\ IF e.ret = "expand"
             THEN /\ stack' = <<Frame(board, position, <<>>)>>
                  /\ pc' = "in_clear"
                  /\ call' = [before |-> board, calls |-> 1, depth |-> 1,
                              inner |-> {}]
                  /\ last' = NoLast
                  /\ UNCHANGED result
             ELSE /\ Matched(position, e.ret)
                  /\ UNCHANGED <<stack, call>>

Recurse_unguarded ==
    /\ pc = "in_clear"
    /\ LET top == stack[Len(stack)]
       IN /\ top.k <= Len(top.cells_around)
          /\ LET position == top.cells_around[top.k]
                 e == enter_unguarded(board, position, top.new_traversed)
             IN /\ board' = e.board
                /\ call' = [call EXCEPT
                              !.calls = @ + 1,
                              !.depth = Max(@, Len(stack) + 1),
                              !.inner = IF e.ret \in {"Ok", "expand"}
                                        THEN @ ELSE @ \cup {e.ret}]
                /\ IF e.ret = "expand"
                   THEN /\ stack' = Append(stack,
                                        Frame(board, position, top.new_traversed))
                        /\ pc' = "in_clear"
                   ELSE IF unwrap_or_else(e.ret) = "panic"
                   THEN /\ stack' = stack
                        /\ pc' = "abort"
                   ELSE /\ stack' = [stack EXCEPT ![Len(stack)].k = @ + 1]
                        /\ pc' = "in_clear"
                /\ UNCHANGED <<result, arg, last>>

NextUnguarded ==
    \/ Won
    \/ Prompt
    \/ Malformed
    \/ \E row_index \in Typed, col_index \in Typed :
          Call_unguarded(row_index, col_index)
    \/ Recurse_unguarded
    \/ Return

SpecUnguarded == Init /\ [][NextUnguarded]_vars

-----------------------------------------------------------------------------
\* The recursive clear side by side with a clear whose expansion is driven
\* by a work-list and a set of visited cells. A top-level clear that reaches
\* its for loop first runs as the code does, on board; when its outermost
\* call is about to return, the work-list clear runs on the board the call
\* was made on, call.before, and keeps its own board in call.wboard.
\*   call.work      the positions still to be entered, taken in any order
\*   call.visited   the positions entered in this top-level clear

\* the positions of the clamped block around position, as the work-list
\* clear enumerates them
around_worklist(position) ==
    {CellPosition(r, c) :
        r \in min_index(position.row_index) .. max_index(position.row_index),
        c \in min_index(position.col_index) .. max_index(position.col_index)}

\* the outermost recursive call is over: the work-list clear starts on
\* call.before with the same lookup, match and write (lines 172-185) on the
\* cell at arg, which is marked visited, and the other cells around it as
\* work
Return_recursive ==
    /\ pc = "in_clear"
    /\ LET top == stack[Len(stack)]
           rest == SubSeq(stack, 1, Len(stack) - 1)
       IN /\ top.k > Len(top.cells_around)
          /\ IF rest = <<>>
             THEN /\ stack' = <<>>
                  /\ pc' = "in_worklist"
                  /\ call' = [before |-> call.before,
                              calls |-> call.calls,
                              depth |-> call.depth,
                              inner |-> call.inner,
                              wboard |-> open_cell(call.before, arg),
                              work |-> around_worklist(arg) \ {arg},
                              visited |-> {arg}]
             ELSE /\ stack' = [rest EXCEPT ![Len(rest)].k = @ + 1]
                  /\ UNCHANGED <<pc, call>>
          /\ UNCHANGED <<board, result, arg, last>>

\* one position is taken off the work-list, whichever: it is marked visited
\* and goes through the lookup, match and write of lines 172-185, and if it
\* was closed with bombs_around = 0 the cells around it that are not
\* visited join the work-list
Take(position) ==
    /\ pc = "in_worklist"
    /\ position \in call.work
    /\ LET e == enter_unguarded(call.wboard, position, <<>>)
           visited == call.visited \cup {position}
       IN /\ call' = [call EXCEPT
                        !.wboard = e.board,
                        !.visited = visited,
                        !.work = IF e.ret = "expand"
                                 THEN (@ \cup around_worklist(position)) \ visited
                                 ELSE @ \ visited]
          /\ pc' = IF e.ret \in {"CellNotFound", "ClearedBomb"}
                   THEN "abort" ELSE pc
    /\ UNCHANGED <<board, stack, result, arg, last>>

\* the work-list is empty: both clears have returned Ok(()) and main goes on
Done ==
    /\ pc = "in_worklist"
    /\ call.work = {}
    /\ Matched(arg, "Ok")
    /\ call' = NoCall
    /\ UNCHANGED <<board, stack, arg>>

NextWorklist ==
    \/ Won
    \/ Prompt
    \/ Malformed
    \/ \E row_index \in Typed, col_index \in Typed : Call(row_index, col_index)
    \/ Recurse
    \/ Return_recursive
    \/ \E row_index \in Idx, col_index \in Idx :
          Take(CellPosition(row_index, col_index))
    \/ Done

SpecWorklist == Init /\ [][NextWorklist]_vars

-----------------------------------------------------------------------------
\* Vocabulary of the properties.
Positions == {CellPosition(r, c) : r \in Idx, c \in Idx}

CellAt(b, position) == b[position.row_index][position.col_index]
InBounds(position) == position.row_index < N /\ position.col_index < N
IsMine(b, position) == CellAt(b, position).state.kind = "Bomb"
IsSafe(b, position) == CellAt(b, position).state.kind = "Safe"
IsOpen(b, position) == IsSafe(b, position) /\ CellAt(b, position).state.open
IsClosed(b, position) == IsSafe(b, position) /\ ~CellAt(b, position).state.open

Errors == {"CellNotFound", "AlreadyCleared", "ClearedBomb"}

\* The step is a top-level clear, on position arg', called on board.
Called == pc = "input" /\ arg' # NoPosition

\* The step is a top-level clear that returns at once.
ReturnsAtOnce == Called /\ pc' # "in_clear"

\* The step is the return of a top-level clear that went through its for
\* loop: it was called on position arg and on board call.before.
ReturnsAfterLoop == pc = "in_clear" /\ pc' # "in_clear"

\* C1: a top-level clear returns CellNotFound when the row or the column is
\* >= N, ClearedBomb on a mine, AlreadyCleared on an open Safe cell, and Ok
\* on a closed Safe cell, which is open afterwards; nothing else of the
\* board or of the call decides the result.
C1_Step ==
    /\ Called =>
          IF ~InBounds(arg')
          THEN pc' # "in_clear" /\ last'.ret = "CellNotFound"
          ELSE IF IsMine(board, arg')
          THEN pc' # "in_clear" /\ last'.ret = "ClearedBomb"
          ELSE IF IsOpen(board, arg')
          THEN pc' # "in_clear" /\ last'.ret = "AlreadyCleared"
          ELSE /\ IsOpen(board', arg')
               /\ pc' = "in_clear" \/ last'.ret = "Ok"
    /\ ReturnsAfterLoop =>
          /\ pc' = "loop"
          /\ IsClosed(call.before, arg)
          /\ last'.ret = "Ok"
          /\ IsOpen(board', arg)

C1_ClearResult == [][C1_Step]_vars

\* a clear of a closed Safe cell has returned Ok and the cell is open
C1_Witness ==
    /\ pc = "loop"
    /\ last.ret = "Ok"
    /\ arg = last.position
    /\ IsOpen(board, arg)

\* C2: when a top-level clear returns CellNotFound, AlreadyCleared or
\* ClearedBomb, every cell of the board is as it was before the call.
C2_Step ==
    /\ (ReturnsAtOnce /\ last'.ret \in Errors) => board' = board
    /\ ReturnsAfterLoop => last'.ret \notin Errors

C2_ErrorLeavesBoard == [][C2_Step]_vars

\* a clear has returned AlreadyCleared on a board with an open cell
C2_Witness ==
    /\ pc = "loop"
    /\ last.ret = "AlreadyCleared"
    /\ IsOpen(board, arg)

\* C3: on a board without mines, a top-level clear of an in-bounds cell
\* returns Ok and leaves every cell open, so that is_won() is true.
NoMines(b) == \A position \in Positions : IsSafe(b, position)

C3_MineFreeClearWins ==
    NoMines(board) =>
       /\ pc # "abort"
       /\ last.ret \in {"none", "CellNotFound", "Ok"}
       /\ last.ret = "Ok" =>
             /\ \A position \in Positions : IsOpen(board, position)
             /\ is_won(board)

\* on a board without mines a clear has returned Ok and the game is won
C3_Witness ==
    /\ NoMines(board)
    /\ last.ret = "Ok"
    /\ result = "Game won"

\* C4 (as amended): for every Safe cell of the board, bombs_around is the
\* number of mines among its up-to-8 adjacent in-bounds cells, and lies in
\* 0..8; for a mine it is that number plus one, the mine itself being
\* counted, and lies in 1..9.
Adjacent(p, q) ==
    /\ p # q
    /\ p.row_index - q.row_index \in {-1, 0, 1}
    /\ p.col_index - q.col_index \in {-1, 0, 1}

MinesAdjacent(b, p) ==
    Cardinality({q \in Positions : Adjacent(p, q) /\ IsMine(b, q)})

\* no clear has been called on the board yet
Constructed == pc = "loop" /\ last.ret = "none" /\ arg = NoPosition

C4_BombsAround ==
    Constructed => \A p \in Positions :
       /\ IsSafe(board, p) =>
             /\ CellAt(board, p).bombs_around = MinesAdjacent(board, p)
             /\ CellAt(board, p).bombs_around \in 0 .. 8
       /\ IsMine(board, p) =>
             /\ CellAt(board, p).bombs_around = MinesAdjacent(board, p) + 1
             /\ CellAt(board, p).bombs_around \in 1 .. 9

\* C4 as stated: for every cell, mine or safe, bombs_around is the number of
\* mines among its adjacent in-bounds cells, itself not counted, and lies in
\* 0..8.
C4_Original ==
    Constructed => \A p \in Positions :
       /\ CellAt(board, p).bombs_around = MinesAdjacent(board, p)
       /\ CellAt(board, p).bombs_around \in 0 .. 8

\* a constructed board with a mine that has a mine next to it, and a Safe
\* cell with two mines around it
C4_Witness ==
    /\ Constructed
    /\ \E p \in Positions :
          IsMine(board, p) /\ CellAt(board, p).bombs_around = 2
    /\ \E p \in Positions :
          IsSafe(board, p) /\ CellAt(board, p).bombs_around = 2

\* C5: is_won() is true exactly when no Safe cell is closed; where main
\* calls it, setting the flagged field of any cell does not change it; and
\* a board without Safe cells is won before any clear.
WithFlag(b, p) ==
    [b EXCEPT ![p.row_index][p.col_index].state.flagged = TRUE]

C5_IsWon ==
    /\ is_won(board) <=> (\A p \in Positions : ~IsClosed(board, p))
    /\ pc = "loop" =>
          \A p \in Positions : is_won(WithFlag(board, p)) <=> is_won(board)
    /\ (\A p \in Positions : IsMine(board, p)) =>
          /\ last.ret = "none"
          /\ pc \in {"loop", "exit"}
          /\ pc = "exit" => result = "Game won"

\* the game on a board of mines only has been won with no clear made
C5_Witness ==
    /\ \A p \in Positions : IsMine(board, p)
    /\ result = "Game won"
    /\ last.ret = "none"

\* C6: two consecutive top-level clears of the same closed Safe cell return
\* Ok the first time and AlreadyCleared the second, and the second leaves
\* the board exactly as the first left it.
C6_Step ==
    /\ (Called /\ InBounds(arg') /\ IsClosed(board, arg')) =>
          \/ pc' = "in_clear"
          \/ pc' = "loop" /\ last'.ret = "Ok" /\ last'.position = arg'
    /\ ReturnsAfterLoop =>
          /\ IsClosed(call.before, arg)
          /\ pc' = "loop" /\ last'.ret = "Ok" /\ last'.position = arg
    /\ (Called /\ last.ret = "Ok" /\ last.position = arg') =>
          /\ pc' = "loop"
          /\ last'.ret = "AlreadyCleared"
          /\ last'.repeat
          /\ board' = board

C6_ClearTwice == [][C6_Step]_vars

\* the second of two consecutive clears of a cell has returned
C6_Witness ==
    /\ pc = "loop"
    /\ last.repeat
    /\ last.ret = "AlreadyCleared"
    /\ IsOpen(board, arg)

\* C7: a top-level clear of a closed Safe cell whose bombs_around is not 0
\* opens that cell, makes no recursive call, changes no other cell and
\* returns Ok.
C7_Step ==
    (/\ Called
     /\ InBounds(arg')
     /\ IsClosed(board, arg')
     /\ CellAt(board, arg').bombs_around # 0) =>
        /\ pc' = "loop"
        /\ last'.ret = "Ok"
        /\ stack' = <<>>
        /\ call' = NoCall
        /\ IsOpen(board', arg')
        /\ CellAt(board', arg').bombs_around = CellAt(board, arg').bombs_around
        /\ \A p \in Positions : p # arg' => CellAt(board', p) = CellAt(board, p)

C7_ClearNonZero == [][C7_Step]_vars

\* the board with mines at (0,0) and (2,2) only, after the clear of (1,1),
\* whose bombs_around is 2: (1,1) is the one open cell
C7_Witness ==
    /\ N = 3
    /\ \A p \in Positions :
          IsMine(board, p) <=> p \in {CellPosition(0, 0), CellPosition(2, 2)}
    /\ pc = "loop"
    /\ last.ret = "Ok"
    /\ last.position = CellPosition(1, 1)
    /\ arg = CellPosition(1, 1)
    /\ CellAt(board, arg).bombs_around = 2
    /\ \A p \in Positions : IsOpen(board, p) <=> p = arg

\* C8: whatever the mine layout and the top-level clears made, no recursive
\* clear returns CellNotFound or ClearedBomb: neither panic of the for loop
\* is reached.
C8_NoPanic ==
    /\ pc # "abort"
    /\ call.inner \subseteq {"AlreadyCleared"}

\* inside a clear, recursive calls have opened a cell next to a mine
C8_Witness ==
    /\ pc = "in_clear"
    /\ call.calls > 1
    /\ \E p \in Positions, q \in Positions :
          /\ IsMine(board, p)
          /\ Adjacent(p, q)
          /\ q # arg
          /\ IsClosed(call.before, q)
          /\ IsOpen(board, q)

\* C9 (as amended): every top-level clear terminates: the traversed list
\* passed to a recursive call is one position longer than its caller's, a
\* list never holds more than N*N positions, at most N*N + 1 invocations of
\* clear are nested, the innermost then returning at its guard, and a
\* top-level clear makes at most 1 + 9*N*N calls in all.
C9_Shape ==
    \A i \in 1 .. Len(stack) :
       /\ Len(stack[i].traversed) = i - 1
       /\ Len(stack[i].new_traversed) = Len(stack[i].traversed) + 1
       /\ i > 1 => stack[i].traversed = stack[i - 1].new_traversed
       /\ \A j \in 1 .. i, k \in 1 .. i :
             stack[i].new_traversed[j] = stack[i].new_traversed[k] => j = k

C9_Terminates ==
    /\ C9_Shape
    /\ Len(stack) <= N * N
    /\ call.depth <= N * N + 1
    /\ call.calls <= 1 + 9 * N * N
    /\ pc = "in_clear" <=> stack # <<>>

\* C9 as stated: the same, with at most N*N invocations nested.
C9_Original ==
    /\ C9_Shape
    /\ Len(stack) <= N * N
    /\ call.depth <= N * N
    /\ call.calls <= 1 + 9 * N * N
    /\ pc = "in_clear" <=> stack # <<>>

\* N*N calls are in their for loop and the innermost has made a call
\* more, which returned at its guard
C9_Witness ==
    /\ Len(stack) = N * N
    /\ call.depth = N * N + 1

\* C10: the game ends with "Game lost" exactly when a top-level clear
\* returns ClearedBomb, and with "Game won" exactly when is_won() is true at
\* the start of a turn, before the prompt; after CellNotFound,
\* AlreadyCleared or a malformed line another turn starts on the same board.
C10_Step ==
    /\ pc # "exit"
    /\ pc = "loop" =>
          IF is_won(board)
          THEN pc' = "exit" /\ result' = "Game won"
          ELSE pc' = "input" /\ result' = result
    /\ (result' = "Game won" /\ result # "Game won") =>
          pc = "loop" /\ is_won(board) /\ board' = board
    /\ (Called /\ pc' # "in_clear" /\ last'.ret = "ClearedBomb") =>
          pc' = "exit" /\ result' = "Game lost"
    /\ (result' = "Game lost" /\ result # "Game lost") =>
          Called /\ pc' = "exit" /\ last'.ret = "ClearedBomb"
    /\ (Called /\ pc' # "in_clear"
               /\ last'.ret \in {"CellNotFound", "AlreadyCleared"}) =>
          pc' = "loop" /\ board' = board /\ result' = result
    /\ (pc = "input" /\ ~Called) =>
          pc' = "loop" /\ board' = board /\ result' = result
    /\ pc' = "exit" => result' \in {"Game won", "Game lost"}

C10_GameLoop == [][C10_Step]_vars

\* the game has been lost by the clear of a mine, after a clear that opened
\* a cell
C10_Witness ==
    /\ pc = "exit"
    /\ result = "Game lost"
    /\ last.ret = "ClearedBomb"
    /\ \E p \in Positions : IsOpen(board, p)

\* C11: no reachable board, between or inside clear calls, has a Safe cell
\* with flagged and open both true, so that rendering a cell never reaches
\* the panic of Display; indeed no cell is ever flagged.
C11_NoFlagOpenConflict ==
    \A p \in Positions :
       /\ ~(IsSafe(board, p) /\ CellAt(board, p).state.flagged
                             /\ CellAt(board, p).state.open)
       /\ fmt(CellAt(board, p)) # "panic"
       /\ ~CellAt(board, p).state.flagged

\* the board is about to be printed with an open cell, a closed cell and a
\* mine on it
C11_Witness ==
    /\ pc = "loop"
    /\ ~is_won(board)
    /\ \E p \in Positions, q \in Positions, r \in Positions :
          /\ IsOpen(board, p)
          /\ fmt(CellAt(board, p)) = ToString(CellAt(board, p).bombs_around)
          /\ fmt(CellAt(board, q)) = "#"
          /\ fmt(CellAt(board, r)) = "@"

\* C12: every step of clear, top-level or recursive, returning Ok or an
\* error, leaves bombs_around, position and the mine/safe kind of each cell
\* as they were; the only change it makes to a cell is a closed Safe cell
\* becoming Safe with open true and flagged false. No cell is created or
\* destroyed.
C12_Step ==
    /\ DOMAIN board' = DOMAIN board
    /\ \A r \in DOMAIN board : DOMAIN board'[r] = DOMAIN board[r]
    /\ \A p \in Positions :
          /\ CellAt(board', p).bombs_around = CellAt(board, p).bombs_around
          /\ CellAt(board', p).position = CellAt(board, p).position
          /\ CellAt(board', p).state.kind = CellAt(board, p).state.kind
          /\ \/ CellAt(board', p) = CellAt(board, p)
             \/ /\ IsClosed(board, p)
                /\ CellAt(board', p).state =
                      [kind |-> "Safe", flagged |-> FALSE, open |-> TRUE]
    /\ ReturnsAfterLoop =>
          \A p \in Positions :
             /\ CellAt(board', p).bombs_around = CellAt(call.before, p).bombs_around
             /\ CellAt(board', p).position = CellAt(call.before, p).position
             /\ CellAt(board', p).state.kind = CellAt(call.before, p).state.kind

C12_ClearFrame == [][C12_Step]_vars

\* inside a clear, a recursive call has opened a cell with a non-zero count
\* and another has returned AlreadyCleared
C12_Witness ==
    /\ pc = "in_clear"
    /\ "AlreadyCleared" \in call.inner
    /\ \E q \in Positions :
          /\ q # arg
          /\ IsClosed(call.before, q)
          /\ IsOpen(board, q)
          /\ CellAt(board, q).bombs_around > 0
          /\ CellAt(board, q).bombs_around = CellAt(call.before, q).bombs_around

\* The cells reachable from p by a chain of successively adjacent cells of
\* which all but the last have bombs_around = 0: the zero-region of p and
\* its one-cell border.
RECURSIVE Reach(_, _)
Reach(b, S) ==
    LET more == {q \in Positions :
                    \E c \in S : CellAt(b, c).bombs_around = 0 /\ Adjacent(c, q)}
    IN IF more \subseteq S THEN S ELSE Reach(b, S \cup more)

Region(b, p) == Reach(b, {p})

\* C13: a top-level clear of a closed Safe cell p with bombs_around = 0
\* goes through its for loop and returns Ok; the cells open afterwards are
\* the cells open before and the cells of the zero-region of p with its
\* one-cell border, and no other cell changes.
C13_Step ==
    /\ (/\ Called
        /\ InBounds(arg')
        /\ IsClosed(board, arg')
        /\ CellAt(board, arg').bombs_around = 0) =>
           /\ pc' = "in_clear"
           /\ call'.before = board
    /\ ReturnsAfterLoop =>
          /\ IsClosed(call.before, arg)
          /\ CellAt(call.before, arg).bombs_around = 0
          /\ pc' = "loop"
          /\ last'.ret = "Ok"
          /\ \A q \in Positions :
                /\ IsOpen(board', q) <=>
                      (IsOpen(call.before, q) \/ q \in Region(call.before, arg))
                /\ q \notin Region(call.before, arg) =>
                      CellAt(board', q) = CellAt(call.before, q)

C13_FloodFill == [][C13_Step]_vars

\* a clear of a cell with bombs_around = 0 has returned: its region is
\* open, a cell outside it was open before, and a Safe cell is still closed
C13_Witness ==
    /\ pc = "loop"
    /\ last.ret = "Ok"
    /\ last.position = arg
    /\ CellAt(board, arg).bombs_around = 0
    /\ Cardinality(Region(board, arg)) > 3
    /\ \A q \in Region(board, arg) : IsOpen(board, q)
    /\ \E q \in Positions : q \notin Region(board, arg) /\ IsOpen(board, q)
    /\ \E q \in Positions : IsClosed(board, q)

\* The cell at p has bombs_around = 0 and so has a cell diagonally adjacent
\* to it.
DiagonalZeros(b, p) ==
    /\ InBounds(p)
    /\ CellAt(b, p).bombs_around = 0
    /\ \E q \in Positions :
          /\ q.row_index # p.row_index
          /\ q.col_index # p.col_index
          /\ Adjacent(p, q)
          /\ CellAt(b, q).bombs_around = 0

\* C14 (as amended): with the guard on traversed taken out of clear and all
\* else unchanged, clear still terminates, also on a region of zero-count
\* cells with diagonal adjacency: a cell is opened before the recursion and
\* a recursive call that comes back to an open cell returns AlreadyCleared,
\* which the for loop passes over. At most N*N calls are in their for loop,
\* a top-level clear makes at most 1 + 9*N*N calls, none panics, and it
\* returns Ok with the board the guarded clear leaves.
C14_Step ==
    /\ Len(stack') <= N * N
    /\ call'.depth <= N * N + 1
    /\ call'.calls <= 1 + 9 * N * N
    /\ pc' # "abort"
    /\ call'.inner \subseteq {"AlreadyCleared"}
    /\ (Called /\ DiagonalZeros(board, arg') /\ IsClosed(board, arg')) =>
          pc' = "in_clear"
    /\ ReturnsAfterLoop =>
          /\ pc' = "loop"
          /\ last'.ret = "Ok"
          /\ \A q \in Positions :
                /\ IsOpen(board', q) <=>
                      (IsOpen(call.before, q) \/ q \in Region(call.before, arg))
                /\ q \notin Region(call.before, arg) =>
                      CellAt(board', q) = CellAt(call.before, q)

C14_UnguardedTerminates == [][C14_Step]_vars

\* C14 as stated: without the guard, a clear of a zero-count cell with a
\* zero-count cell diagonally adjacent never leaves its recursion.
C14_Original ==
    [][(pc = "in_clear" /\ DiagonalZeros(board, arg)) => pc' = "in_clear"]_vars

\* without the guard, the clear of a zero-count cell of a mine-free board,
\* all of whose cells are diagonally adjacent zero-count cells, has returned
\* Ok with every cell open
C14_Witness ==
    /\ pc = "loop"
    /\ last.ret = "Ok"
    /\ last.position = arg
    /\ DiagonalZeros(board, arg)
    /\ NoMines(board)
    /\ \A q \in Positions : IsOpen(board, q)

\* C15: a clear whose expansion is driven by a work-list and a visited set,
\* each cell entered at most once and the work taken in any order, returns
\* what the recursive clear returns and leaves the board the recursive clear
\* leaves, for every board and position: run on the same board, both end
\* with Ok(()) and the same cells, neither panics, and a clear that does not
\* expand returns from the same lookup and match in both.
C15_Step ==
    /\ pc' # "abort"
    /\ (pc = "in_clear" /\ pc' = "in_worklist") =>
          /\ call'.before = call.before
          /\ IsClosed(call.before, arg)
    /\ pc' = "in_worklist" =>
          /\ call'.visited \subseteq Positions
          /\ \A p \in Positions :
                CellAt(call'.wboard, p) # CellAt(call'.before, p) =>
                   p \in call'.visited
    /\ (pc = "in_worklist" /\ pc' # "in_worklist") =>
          /\ call.work = {}
          /\ call.wboard = board
          /\ board' = board
          /\ pc' = "loop"
          /\ last'.ret = "Ok"
          /\ last'.position = arg
    /\ ReturnsAtOnce =>
          /\ last'.ret = enter_unguarded(board, arg', <<>>).ret
          /\ board' = enter_unguarded(board, arg', <<>>).board

C15_WorklistSame == [][C15_Step]_vars

\* the work-list clear has emptied its work-list after entering more than
\* three cells, and its board is the board of the recursive clear, on which
\* a Safe cell is still closed
C15_Witness ==
    /\ pc = "in_worklist"
    /\ call.work = {}
    /\ Cardinality(call.visited) > 3
    /\ call.wboard = board
    /\ call.wboard # call.before
    /\ \E p \in Positions : IsClosed(board, p)

\* C16: between top-level clears, on the fresh board and after any
\* sequence of completed clears, every open Safe cell with bombs_around = 0
\* has all its in-bounds neighbours open.
C16_OpenZeroSurrounded ==
    pc # "in_clear" =>
       \A p \in Positions :
          (IsOpen(board, p) /\ CellAt(board, p).bombs_around = 0) =>
             \A q \in Positions : Adjacent(p, q) => IsOpen(board, q)

\* after a completed clear an open cell with bombs_around = 0 has its
\* neighbours open, next to cells that are still closed
C16_Witness ==
    /\ pc = "loop"
    /\ last.ret = "Ok"
    /\ \E p \in Positions :
          /\ IsOpen(board, p)
          /\ CellAt(board, p).bombs_around = 0
          /\ \A q \in Positions : Adjacent(p, q) => IsOpen(board, q)
    /\ \E p \in Positions : IsClosed(board, p)

OpenCount(b) == Cardinality({p \in Positions : IsOpen(b, p)})
SafeCount(b) == Cardinality({p \in Positions : IsSafe(b, p)})

\* C17: over any sequence of clears the set of open cells only grows: no
\* step closes an open cell; a top-level clear that returns Ok(()) has
\* opened the cell it was called on, which was closed, so that the number of
\* open cells has grown by one at least; and that number never exceeds the
\* number of Safe cells, which does not change: a game has no more
\* successful clears than the board has Safe cells.
C17_Step ==
    /\ \A p \in Positions : IsOpen(board, p) => IsOpen(board', p)
    /\ SafeCount(board') = SafeCount(board)
    /\ OpenCount(board') <= SafeCount(board')
    /\ (ReturnsAtOnce /\ last'.ret = "Ok") =>
          /\ IsClosed(board, arg')
          /\ IsOpen(board', arg')
          /\ OpenCount(board') >= OpenCount(board) + 1
    /\ ReturnsAfterLoop =>
          /\ last'.ret = "Ok"
          /\ IsClosed(call.before, arg)
          /\ IsOpen(board', arg)
          /\ OpenCount(board') >= OpenCount(call.before) + 1
    /\ last'.ret = "Ok" => (last.ret = "Ok" \/ ReturnsAtOnce \/ ReturnsAfterLoop)

C17_OpenOnlyGrows == [][C17_Step]_vars

\* successful clears have opened every Safe cell of a board that has mines
\* and several Safe cells, the last of them a single cell
C17_Witness ==
    /\ pc = "loop"
    /\ last.ret = "Ok"
    /\ last.position = arg
    /\ CellAt(board, arg).bombs_around > 0
    /\ SafeCount(board) >= 3
    /\ SafeCount(board) < N * N
    /\ OpenCount(board) = SafeCount(board)

\* C18: the two outcomes of the game exclude each other and are final:
\* "Game lost" is declared only on a board with a Safe cell still closed,
\* "Game won" only on a board for which is_won() is true; clear is never
\* called on a board for which is_won() is true; and once an outcome is
\* declared nothing happens to the board any more.
C18_Step ==
    /\ result = "none"
    /\ pc # "exit"
    /\ Called => ~is_won(board) /\ \E p \in Positions : IsClosed(board, p)
    /\ pc = "in_clear" => ~is_won(call.before)
    /\ result' = "Game lost" =>
          /\ pc' = "exit"
          /\ ~is_won(board')
          /\ \E p \in Positions : IsClosed(board', p)
    /\ result' = "Game won" =>
          /\ pc' = "exit"
          /\ is_won(board')
          /\ last'.ret # "ClearedBomb"
    /\ pc' = "exit" <=> result' # "none"

C18_OutcomesFinal == [][C18_Step]_vars

\* the game has been lost with one Safe cell left to open
C18_Witness ==
    /\ pc = "exit"
    /\ result = "Game lost"
    /\ OpenCount(board) + 1 = SafeCount(board)
    /\ OpenCount(board) >= 2

\* lines 295-309: the player submits the position of an in-bounds cell that
\* is not an open Safe cell, and clear is called on it
GoodMove ==
    \E row_index \in Idx, col_index \in Idx :
       /\ ~IsOpen(board, CellPosition(row_index, col_index))
       /\ Call(row_index, col_index)

\* The game loop run by one thread that does not stop on its own: a turn
\* begins and ends, a clear in progress goes on to its return. The player
\* may submit anything, but does not forever withhold the position of an
\* in-bounds cell that is not an open Safe cell.
LiveSpec ==
    /\ Init
    /\ [][Next]_vars
    /\ WF_vars(Won)
    /\ WF_vars(Prompt)
    /\ WF_vars(Recurse)
    /\ WF_vars(Return)
    /\ SF_vars(GoodMove)

\* C19: if on every turn the player eventually submits the position of an
\* in-bounds cell that is not an open Safe cell, then on every board the
\* game loop eventually ends with "Game won" or "Game lost".
C19_GameEnds ==
    <>(pc = "exit" /\ result \in {"Game won", "Game lost"})

\* the game on a board with mines has been won by clears that opened cells
\* one after another
C19_Witness ==
    /\ pc = "exit"
    /\ result = "Game won"
    /\ last.ret = "Ok"
    /\ last.position = arg
    /\ CellAt(board, arg).bombs_around > 0
    /\ SafeCount(board) >= 2
    /\ SafeCount(board) < N * N

=============================================================================
